---- MODULE Spec2Model ----
(***************************************************************************)
(* A model of the record factories of domainjs: defineEntity (Entity.ts),  *)
(* defineEvent (Event.ts: createEvent, and the earlier makeEvent),         *)
(* defineMessage (Message.ts: createMessage, and the earlier makeMessage)  *)
(* and defineValue (Value.ts).  One factory with one lifecycle handler is  *)
(* fixed by Init; the actions construct a record from an input and then    *)
(* write through the proxy that the factory returned or delete one of its  *)
(* fields.  Every callback the code invokes is appended to log with the    *)
(* arguments it received.  Further specifications: SpecView adds direct    *)
(* assignments on the object behind an Entity, SpecTally counts an         *)
(* Entity's callback calls, SpecThrowing gives an Entity an updated hook   *)
(* that throws, SpecValueFor is createValueFor and validateValueFor of     *)
(* models/Value.ts.                                                        *)
(***************************************************************************)
EXTENDS Integers, Sequences, FiniteSets, TLC

VARIABLES factory, handler, klass, target, phase, op, prev, log, out, rejects, base, object, tally

vars == <<factory, handler, klass, target, phase, op, prev, log, out, rejects, base, object, tally>>

(***************************************************************************)
(* Values.  0 stands for undefined, 1 for a value of length 1, and so on.  *)
(***************************************************************************)
MaxVal == 3

\* the longest run of consecutive failed Entity writes that is followed
MaxRejects == 2

\* the number of writes whose callbacks are tallied
MaxWrites == 2

Undefined == 0

Values == 0 .. MaxVal

Keys == {"id", "name"}

ValueKeys == {"value", "_value"}

NoKey == "-"

(***************************************************************************)
(* A target is the plain object behind the proxy.  A field is absent, an   *)
(* own property, or a property inherited from the prototype.               *)
(***************************************************************************)
Absent == [at |-> "absent", v |-> Undefined]

Own(v) == [at |-> "own", v |-> v]

Inherited(v) == [at |-> "proto", v |-> v]

\* the values a prototype holds for a field that the object does not own
ProtoValues == {MaxVal}

Cells == {Absent} \cup {Own(v) : v \in Values} \cup {Inherited(v) : v \in ProtoValues}

NullTarget == [structured |-> FALSE, fields |-> [k \in Keys |-> Absent]]

Targets == {NullTarget} \cup {[structured |-> TRUE, fields |-> f] : f \in [Keys -> Cells]}

\* guard(value): value is a non-null object.
guard(t) == t.structured

\* key in target
has(t, key) == t.fields[key].at # "absent"

\* target[key]
get(t, key) == t.fields[key].v

\* a set that stores the value and resets every other own field to undefined
ReflectSet_ResetsOthers(t, key, value) ==
  [t EXCEPT !.fields = [k \in DOMAIN t.fields |->
                          IF k = key THEN Own(value)
                          ELSE IF t.fields[k].at = "own" THEN Own(Undefined) ELSE t.fields[k]]]

\* Reflect.set(target, key, value) on a plain data property.
ReflectSet(t, key, value) == [t EXCEPT !.fields[key] = Own(value)]

(***************************************************************************)
(* Errors and outcomes.                                                    *)
(***************************************************************************)
Error(type, msg, key) == [type |-> type, msg |-> msg, key |-> key]

NoErr == Error("none", "none", NoKey)

Call(cb, key, value, old, ref, rec, err) ==
  [cb |-> cb, key |-> key, value |-> value, old |-> old, ref |-> ref, rec |-> rec, err |-> err]

Returned(t, l) == [status |-> "returned", err |-> NoErr, target |-> t, log |-> l]

Thrown(t, l, e) == [status |-> "thrown", err |-> e, target |-> t, log |-> l]

(***************************************************************************)
(* The validators a caller supplies: "long" is value => 1 < value.length   *)
(* (it throws a TypeError on undefined), "guard" is value => guard(value). *)
(***************************************************************************)
ValidatorKinds == {"none", "long", "guard"}

ApplyValidator(kind, value) ==
  CASE kind = "long" -> IF value = Undefined THEN "throw" ELSE IF 1 < value THEN "true" ELSE "false"
    [] kind = "guard" -> IF value = Undefined THEN "false" ELSE "true"
    [] OTHER -> "true"

ValidatorException(key) == Error("TypeError", "validator threw", key)

\* the exception of an updated hook that throws
UpdatedException(key) == Error("TypeError", "updated threw", key)

\* a throwError that reports the error to the callback twice
throwError_Twice(errorClass, msg, key, h, t, l) ==
  LET error == Error(errorClass, msg, key)
      call == Call("error", key, Undefined, Undefined, "-", t.fields, error)
  IN  Thrown(t, IF h.error THEN l \o <<call, call>> ELSE l, error)

\* function throwError / throwErrorAndTrace: new XError(message); handler.error?.(error); throw error
throwError(errorClass, msg, key, h, t, l) ==
  LET error == Error(errorClass, msg, key)
  IN  Thrown(t, IF h.error THEN Append(l, Call("error", key, Undefined, Undefined, "-", t.fields, error)) ELSE l, error)

(***************************************************************************)
(* Lifecycle handlers.  properties is kept as the sequence of its entries  *)
(* in insertion order (Object.entries); hasProps is FALSE for a handler    *)
(* with no properties map.  created, trace, error and updated tell whether *)
(* the caller supplied that callback.  The code tests each callback with   *)
(* ?. on its own, so the handlers here supply created, trace and error     *)
(* together or not at all; updated is per descriptor.  Object keys are     *)
(* interchangeable, so a map of two descriptors lists "id" first.          *)
(***************************************************************************)
Descriptors(key) ==
  [key : {key}, required : BOOLEAN, validator : ValidatorKinds, updated : BOOLEAN, throws : {FALSE}]

\* descriptors whose updated hook raises an exception (throws is TRUE)
ThrowingDescriptors(key) ==
  [key : {key}, required : BOOLEAN, validator : ValidatorKinds, updated : {TRUE}, throws : {TRUE}]

PropertyMaps ==
  {<<>>} \cup {<<d>> : d \in Descriptors("id")}
         \cup {<<d1, d2>> : d1 \in Descriptors("id"), d2 \in Descriptors("name")}

\* handlers whose descriptor of "id" has an updated hook that throws
ThrowingHandlers ==
  {[created |-> c, trace |-> c, error |-> c, hasProps |-> TRUE, props |-> p] :
      c \in BOOLEAN,
      p \in {<<d>> : d \in ThrowingDescriptors("id")}
            \cup {<<d1, d2>> : d1 \in ThrowingDescriptors("id"), d2 \in Descriptors("name")}}

RecordHandlers ==
  {[created |-> c, trace |-> c, error |-> c, hasProps |-> TRUE, props |-> p] :
      c \in BOOLEAN, p \in PropertyMaps}
  \cup {[created |-> c, trace |-> c, error |-> c, hasProps |-> FALSE, props |-> <<>>] : c \in BOOLEAN}

\* handler.properties?.[key]: the index of key's descriptor, 0 when there is none
RECURSIVE IndexOf(_, _, _)
IndexOf(props, key, i) ==
  IF i > Len(props) THEN 0
  ELSE IF props[i].key = key THEN i ELSE IndexOf(props, key, i + 1)

HasProperty(h, key) == h.hasProps /\ IndexOf(h.props, key, 1) # 0

Property(h, key) == h.props[IndexOf(h.props, key, 1)]

NoProperty == [key |-> NoKey, required |-> FALSE, validator |-> "none", updated |-> FALSE, throws |-> FALSE]

PropertyOf(h, key) == IF HasProperty(h, key) THEN Property(h, key) ELSE NoProperty

(***************************************************************************)
(* The construction loop shared by makeEntity, createEvent, createMessage, *)
(* makeEvent and makeMessage: for each [key, property] of                  *)
(* Object.entries(properties), in order, stop at the first throw.          *)
(* The validator receives target[key] and the proxy.                       *)
(***************************************************************************)
ValidatorCall(key, value, ref, t) == Call("validator", key, value, Undefined, ref, t.fields, NoErr)

\* a loop body that never reports a missing required field
CheckProperty_NoRequired(errorClass, h, t, l, property) ==
  LET key == property.key
      called == Append(l, ValidatorCall(key, get(t, key), "proxy", t))
      verdict == ApplyValidator(property.validator, get(t, key))
  IN  IF ~has(t, key) \/ property.validator = "none" THEN Returned(t, l)
      ELSE IF verdict = "throw" THEN Thrown(t, called, ValidatorException(key))
      ELSE IF verdict = "false" THEN throwError(errorClass, "is invalid", key, h, t, called)
      ELSE Returned(t, called)

\* a loop body that validates an optional field even when its value is undefined
CheckProperty_ValidateUndefined(errorClass, h, t, l, property) ==
  LET key == property.key
      called == Append(l, ValidatorCall(key, get(t, key), "proxy", t))
      verdict == ApplyValidator(property.validator, get(t, key))
      validate ==
        IF property.validator = "none" THEN Returned(t, l)
        ELSE IF verdict = "throw" THEN Thrown(t, called, ValidatorException(key))
        ELSE IF verdict = "false" THEN throwError(errorClass, "is invalid", key, h, t, called)
        ELSE Returned(t, called)
  IN  IF property.required
      THEN IF ~has(t, key) THEN throwError(errorClass, "is required", key, h, t, l)
           ELSE validate
      ELSE IF has(t, key) THEN validate
           ELSE Returned(t, l)

\* a loop body that catches a validator's exception and treats it as passing
CheckProperty_CatchesThrow(errorClass, h, t, l, property) ==
  LET key == property.key
      called == Append(l, ValidatorCall(key, get(t, key), "proxy", t))
      verdict == ApplyValidator(property.validator, get(t, key))
      validate ==
        IF property.validator = "none" THEN Returned(t, l)
        ELSE IF verdict = "false" THEN throwError(errorClass, "is invalid", key, h, t, called)
        ELSE Returned(t, called)
  IN  IF property.required
      THEN IF ~has(t, key) THEN throwError(errorClass, "is required", key, h, t, l)
           ELSE validate
      ELSE IF has(t, key) /\ get(t, key) # Undefined THEN validate
           ELSE Returned(t, l)

\* a loop body whose validator sees a record holding only the field being checked
CheckProperty_PartialRecord(errorClass, h, t, l, property) ==
  LET key == property.key
      partial == [t EXCEPT !.fields = [k \in DOMAIN t.fields |-> IF k = key THEN t.fields[k] ELSE Absent]]
      called == Append(l, ValidatorCall(key, get(t, key), "proxy", partial))
      verdict == ApplyValidator(property.validator, get(t, key))
      validate ==
        IF property.validator = "none" THEN Returned(t, l)
        ELSE IF verdict = "throw" THEN Thrown(t, called, ValidatorException(key))
        ELSE IF verdict = "false" THEN throwError(errorClass, "is invalid", key, h, t, called)
        ELSE Returned(t, called)
  IN  IF property.required
      THEN IF ~has(t, key) THEN throwError(errorClass, "is required", key, h, t, l)
           ELSE validate
      ELSE IF has(t, key) /\ get(t, key) # Undefined THEN validate
           ELSE Returned(t, l)

CheckProperty(errorClass, h, t, l, property) ==
  LET key == property.key
      called == Append(l, ValidatorCall(key, get(t, key), "proxy", t))
      verdict == ApplyValidator(property.validator, get(t, key))
      validate ==
        IF property.validator = "none" THEN Returned(t, l)
        ELSE IF verdict = "throw" THEN Thrown(t, called, ValidatorException(key))
        ELSE IF verdict = "false" THEN throwError(errorClass, "is invalid", key, h, t, called)
        ELSE Returned(t, called)
  IN  IF property.required
      THEN IF ~has(t, key) THEN throwError(errorClass, "is required", key, h, t, l)
           ELSE validate
      ELSE IF has(t, key) /\ get(t, key) # Undefined THEN validate
           ELSE Returned(t, l)

\* a loop that checks the descriptors last to first
RECURSIVE CheckProperties_Reversed(_, _, _, _, _)
CheckProperties_Reversed(errorClass, h, t, l, i) ==
  IF i > Len(h.props) THEN Returned(t, l)
  ELSE LET r == CheckProperty(errorClass, h, t, l, h.props[Len(h.props) - i + 1])
       IN  IF r.status = "thrown" THEN r
           ELSE CheckProperties_Reversed(errorClass, h, t, r.log, i + 1)

RECURSIVE CheckProperties(_, _, _, _, _)
CheckProperties(errorClass, h, t, l, i) ==
  IF i > Len(h.props) THEN Returned(t, l)
  ELSE LET r == CheckProperty(errorClass, h, t, l, h.props[i])
       IN  IF r.status = "thrown" THEN r
           ELSE CheckProperties(errorClass, h, t, r.log, i + 1)

HookCall(cb, ref, t) == Call(cb, NoKey, Undefined, Undefined, ref, t.fields, NoErr)

Created(h, t, l) == IF h.created THEN Append(l, HookCall("created", "proxy", t)) ELSE l

Trace(h, ref, t, l) == IF h.trace THEN Append(l, HookCall("trace", ref, t)) ELSE l

\* a factory that calls trace before created
makeEntity_TraceFirst(t, h) ==
  IF guard(t) /\ h.hasProps
  THEN LET r == CheckProperties("EntityError", h, t, <<>>, 1)
       IN  IF r.status = "thrown" THEN r
           ELSE Returned(t, Created(h, t, Trace(h, "proxy", t, r.log)))
  ELSE throwError("EntityError", "is invalid", NoKey, h, t, <<>>)

\* a factory that fills every declared field the input lacks with undefined
makeEntity_FillsDeclared(t, h) ==
  IF guard(t) /\ h.hasProps
  THEN LET r == CheckProperties("EntityError", h, t, <<>>, 1)
           filled == [t EXCEPT !.fields = [k \in Keys |->
                        IF HasProperty(h, k) /\ ~has(t, k) THEN Own(Undefined) ELSE t.fields[k]]]
       IN  IF r.status = "thrown" THEN r
           ELSE Returned(filled, Trace(h, "proxy", filled, Created(h, filled, r.log)))
  ELSE throwError("EntityError", "is invalid", NoKey, h, t, <<>>)

\* Entity.ts makeEntity
makeEntity(t, h) ==
  IF guard(t) /\ h.hasProps
  THEN LET r == CheckProperties("EntityError", h, t, <<>>, 1)
       IN  IF r.status = "thrown" THEN r
           ELSE Returned(t, Trace(h, "proxy", t, Created(h, t, r.log)))
  ELSE throwError("EntityError", "is invalid", NoKey, h, t, <<>>)

\* Event.ts createEvent
createEvent(t, h) ==
  IF guard(t) /\ h.hasProps
  THEN LET r == CheckProperties("EventError", h, t, <<>>, 1)
       IN  IF r.status = "thrown" THEN r
           ELSE Returned(t, Trace(h, "proxy", t, Created(h, t, r.log)))
  ELSE Thrown(t, <<>>, Error("EventError", "is invalid", NoKey))

\* a Message factory that, unlike its Event twin, does not call trace
createMessage_NoTrace(t, h) ==
  IF guard(t) /\ h.hasProps
  THEN LET r == CheckProperties("MessageError", h, t, <<>>, 1)
       IN  IF r.status = "thrown" THEN r
           ELSE Returned(t, Created(h, t, r.log))
  ELSE Thrown(t, <<>>, Error("MessageError", "is invalid", NoKey))

\* Message.ts createMessage
createMessage(t, h) ==
  IF guard(t) /\ h.hasProps
  THEN LET r == CheckProperties("MessageError", h, t, <<>>, 1)
       IN  IF r.status = "thrown" THEN r
           ELSE Returned(t, Trace(h, "proxy", t, Created(h, t, r.log)))
  ELSE Thrown(t, <<>>, Error("MessageError", "is invalid", NoKey))

\* the earlier Event module: makeEvent (no trace)
makeEvent(t, h) ==
  IF guard(t) /\ h.hasProps
  THEN LET r == CheckProperties("EventError", h, t, <<>>, 1)
       IN  IF r.status = "thrown" THEN r
           ELSE Returned(t, Created(h, t, r.log))
  ELSE Thrown(t, <<>>, Error("EventError", "is invalid", NoKey))

\* the earlier Message module: makeMessage (no trace)
makeMessage(t, h) ==
  IF guard(t) /\ h.hasProps
  THEN LET r == CheckProperties("MessageError", h, t, <<>>, 1)
       IN  IF r.status = "thrown" THEN r
           ELSE Returned(t, Created(h, t, r.log))
  ELSE Thrown(t, <<>>, Error("MessageError", "is invalid", NoKey))

(***************************************************************************)
(* The proxy handlers' set traps.  Here the callbacks receive the target,  *)
(* not the proxy.                                                          *)
(***************************************************************************)
MutableSet(errorClass, h, t, key, value) ==
  LET property == PropertyOf(h, key)
      called == IF property.validator = "none" THEN <<>>
                ELSE <<ValidatorCall(key, value, "target", t)>>
      verdict == ApplyValidator(property.validator, value)
      updated == IF property.updated
                 THEN Append(called, Call("updated", key, value, get(t, key), "target", t.fields, NoErr))
                 ELSE called
      result == ReflectSet(t, key, value)
  IN  IF verdict = "throw" THEN Thrown(t, called, ValidatorException(key))
      ELSE IF verdict = "false" THEN throwError(errorClass, "is invalid", key, h, t, called)
      ELSE IF property.updated /\ property.throws THEN Thrown(t, updated, UpdatedException(key))
      ELSE Returned(result, Trace(h, "target", result, updated))

\* a set trap that writes before it validates
makeEntityHandler_WriteFirst(h, t, key, value) ==
  LET r == MutableSet("EntityError", h, t, key, value)
  IN  IF r.status = "thrown" THEN [r EXCEPT !.target = ReflectSet(t, key, value)] ELSE r

\* a set trap that calls updated after the write, with the record already changed
makeEntityHandler_UpdatedAfterWrite(h, t, key, value) ==
  LET r == MutableSet("EntityError", h, t, key, value)
  IN  [r EXCEPT !.log = [i \in DOMAIN r.log |->
                           IF r.log[i].cb = "updated" THEN [r.log[i] EXCEPT !.rec = r.target.fields]
                           ELSE r.log[i]]]

\* a set trap that skips trace when the field has no descriptor
makeEntityHandler_TraceGoverned(h, t, key, value) ==
  LET r == MutableSet("EntityError", h, t, key, value)
  IN  IF HasProperty(h, key) THEN r
      ELSE [r EXCEPT !.log = SelectSeq(r.log, LAMBDA c : c.cb # "trace")]

\* a set trap that also rejects a write while the stored value is one the validator rejects
makeEntityHandler_ValidatesStored(h, t, key, value) ==
  LET r == MutableSet("EntityError", h, t, key, value)
  IN  IF r.status = "returned" /\ has(t, key)
         /\ ApplyValidator(PropertyOf(h, key).validator, get(t, key)) # "true"
      THEN throwError("EntityError", "is invalid", key, h, t, <<>>)
      ELSE r

\* a set trap that stores without asking the validator
makeEntityHandler_NoValidation(h, t, key, value) ==
  LET result == ReflectSet(t, key, value)
  IN  Returned(result, Trace(h, "target", result, <<>>))

\* a set trap that, like construction, does not validate undefined written to an optional field
makeEntityHandler_SkipsUndefined(h, t, key, value) ==
  IF value = Undefined /\ ~PropertyOf(h, key).required
  THEN LET result == ReflectSet(t, key, value)
       IN  Returned(result, Trace(h, "target", result, <<>>))
  ELSE MutableSet("EntityError", h, t, key, value)

\* a set trap that catches what updated throws and carries on
makeEntityHandler_CatchesUpdated(h, t, key, value) ==
  LET r == MutableSet("EntityError", h, t, key, value)
      result == ReflectSet(t, key, value)
  IN  IF r.err = UpdatedException(key) THEN Returned(result, Trace(h, "target", result, r.log)) ELSE r

\* Entity.ts makeEntityHandler.set
makeEntityHandler(h, t, key, value) == MutableSet("EntityError", h, t, key, value)

\* record[key] = value done by a callback on the reference it was handed: the
\* proxy runs the set trap, the bare target is assigned without it.
CallbackWrite(ref, h, t, key, value) ==
  IF ref = "proxy" THEN makeEntityHandler(h, t, key, value)
  ELSE Returned(ReflectSet(t, key, value), <<>>)

\* Event.ts createEventHandler.set
createEventHandler(h, t, key, value) == MutableSet("EventError", h, t, key, value)

\* Message.ts createMessageHandler.set
createMessageHandler(h, t, key, value) == MutableSet("MessageError", h, t, key, value)

\* the earlier Event module: makeEventHandler.set
makeEventHandler(h, t, key, value) ==
  throwError("EventError", "cannot modify event properties", NoKey, h, t, <<>>)

\* a set trap in Value.ts that raises the file's other error class
makeMessageHandler_ValueError(h, t, key, value) ==
  throwError("ValueError", "cannot modify message properties", NoKey, h, t, <<>>)

\* the earlier Message module: makeMessageHandler.set
makeMessageHandler(h, t, key, value) ==
  throwError("MessageError", "cannot modify message properties", NoKey, h, t, <<>>)

(***************************************************************************)
(* Deletion.  No proxy handler in the repository defines deleteProperty.   *)
(***************************************************************************)
\* Reflect.deleteProperty(target, key) on a plain object: what a delete through
\* a proxy does when its handler has no deleteProperty trap.
\* Only an own property is removed; an inherited one stays readable.
ReflectDeleteProperty(t, key) ==
  IF t.fields[key].at = "own" THEN [t EXCEPT !.fields[key] = Absent] ELSE t

\* delete record[key]: the handlers built by makeEntityHandler, createEventHandler,
\* createMessageHandler, makeEventHandler and makeMessageHandler define set only.
deleteProperty(h, t, key) == Returned(ReflectDeleteProperty(t, key), <<>>)

(***************************************************************************)
(* Value.ts.  A Value instance holds _value; value is a getter with no     *)
(* setter on the prototype.  The concrete class may define prepare.        *)
(***************************************************************************)
PrepareKinds == {"none", "dec", "inc"}

\* the prepare step of a concrete class: "dec" drops a character, "inc" pads one
prepare(kind, value) ==
  CASE kind = "dec" -> IF value > 1 THEN value - 1 ELSE value
    [] kind = "inc" -> IF value # Undefined /\ value < MaxVal THEN value + 1 ELSE value
    [] OTHER -> value

ValueHandlers ==
  {[created |-> c, trace |-> c, error |-> c, validator |-> v] : c \in BOOLEAN, v \in ValidatorKinds}

ValueTarget(v) == [structured |-> TRUE, fields |-> [k \in {"_value"} |-> Own(v)]]

\* get value(): return this._value
value(t) == t.fields["_value"].v

\* a constructor that stores the raw input
Value_Raw(kind, x) == ValueTarget(x)

\* constructor(value): this._value = 'function' === typeof this.prepare ? this.prepare(value) : value
Value(kind, x) == ValueTarget(IF kind # "none" THEN prepare(kind, x) ELSE x)

PrepareCalls(kind, x) ==
  IF kind # "none"
  THEN <<Call("prepare", "value", x, Undefined, "this", [k \in {"_value"} |-> Absent], NoErr)>>
  ELSE <<>>

\* Value.ts createValue(target, value, handler)
createValue(t, x, h, l) ==
  IF guard(t)
  THEN LET called == IF h.validator = "none" THEN l
                     ELSE Append(l, ValidatorCall("value", x, "proxy", t))
           verdict == ApplyValidator(h.validator, x)
       IN  IF verdict = "throw" THEN Thrown(t, called, ValidatorException("value"))
           ELSE IF verdict = "false" THEN throwError("ValueError", "is invalid", "value", h, t, called)
           ELSE Returned(t, Trace(h, "proxy", t, Created(h, t, called)))
  ELSE throwError("ValueError", "is invalid", NoKey, h, t, l)

\* defineValue: value => createValue(new _class(value), value, handler)
defineValue(kind, h, x) == createValue(Value(kind, x), x, h, PrepareCalls(kind, x))

\* Reflect.set(target, key, value) on a Value: value is an accessor without a
\* setter, so the set fails (FALSE) and changes nothing; _value is a data property.
ValueReflectSet(t, key, v) ==
  IF key = "value" THEN [ok |-> FALSE, target |-> t]
  ELSE [ok |-> TRUE, target |-> [t EXCEPT !.fields[key] = Own(v)]]

\* Value.ts createValueHandler.set.  A set trap that returns false makes the
\* assignment throw a TypeError in strict code and is ignored in sloppy code.
createValueHandler(h, t, key, v, strict) ==
  LET called == IF h.validator = "none" THEN <<>>
                ELSE <<ValidatorCall(key, v, "target", t)>>
      verdict == ApplyValidator(h.validator, v)
      result == ValueReflectSet(t, key, v)
  IN  IF verdict = "throw" THEN Thrown(t, called, ValidatorException(key))
      ELSE IF verdict = "false" THEN Thrown(t, called, Error("ValueError", "is invalid", key))
      ELSE IF ~result.ok /\ strict
           THEN Thrown(result.target, called, Error("TypeError", "trap returned falsish", key))
           ELSE Returned(result.target, called)

(***************************************************************************)
(* The state machine.                                                      *)
(***************************************************************************)
RecordFactories == {"makeEntity", "createEvent", "createMessage", "makeEvent", "makeMessage"}

Factories == RecordFactories \cup {"defineValue"}

Op(name, key, v, strict) == [name |-> name, key |-> key, value |-> v, strict |-> strict]

InitRecord ==
  /\ factory \in Factories
  /\ IF factory = "defineValue"
     THEN handler \in ValueHandlers /\ klass \in PrepareKinds
     ELSE handler \in RecordHandlers /\ klass = "none"
  /\ target = NullTarget
  /\ prev = NullTarget
  /\ phase = "defined"
  /\ op = Op("define", NoKey, Undefined, TRUE)
  /\ log = <<>>
  /\ out = [status |-> "none", err |-> NoErr]
  /\ rejects = 0
  /\ base = NullTarget
  /\ object = NullTarget

\* the calls and the writes counted since the factory was defined; the count
\* is kept only when on is TRUE
Tallies(on) == [on |-> on, created |-> 0, trace |-> 0, error |-> 0, accepted |-> 0, rejected |-> 0, writes |-> 0]

Init == InitRecord /\ tally = Tallies(FALSE)

CountIn(l, cb) == Cardinality({i \in DOMAIN l : l[i].cb = cb})

\* the tallies after an operation that ended as r and made the calls r.log; a
\* write is accepted when it returns and rejected when it throws the Entity's error
Tally(name, r) ==
  [on |-> TRUE,
   created |-> tally.created + CountIn(r.log, "created"),
   trace |-> tally.trace + CountIn(r.log, "trace"),
   error |-> tally.error + CountIn(r.log, "error"),
   accepted |-> tally.accepted + (IF name = "set" /\ r.status = "returned" THEN 1 ELSE 0),
   rejected |-> tally.rejected + (IF name = "set" /\ r.err.type = "EntityError" THEN 1 ELSE 0),
   writes |-> tally.writes + (IF name = "set" THEN 1 ELSE 0)]

\* a guard that works on a copy and leaves the caller's object as it was
Original_Copy(before, r) == before

\* new Proxy(target, ...): the object behind the guard is the caller's object
\* itself, so after an operation the caller's object is what the operation left.
Original(before, r) == r.target

\* the last operation was a write to an Entity that threw
Rejected == factory = "makeEntity" /\ op.name = "set" /\ out.status = "thrown"

\* rejects counts the failed Entity writes that came one after another right
\* before the operation, base is the record as it was before the first of them.
Finish(name, key, v, strict, before, r) ==
  /\ rejects' = IF Rejected THEN rejects + 1 ELSE 0
  /\ base' = IF Rejected THEN base ELSE before
  /\ object' = Original(before, r)
  /\ tally' = IF tally.on THEN Tally(name, r) ELSE tally
  /\ op' = Op(name, key, v, strict)
  /\ prev' = before
  /\ target' = r.target
  /\ log' = r.log
  /\ out' = [status |-> r.status, err |-> r.err]
  /\ UNCHANGED <<factory, handler, klass>>

Construct(name, input, r) ==
  /\ phase = "defined"
  /\ factory = name
  /\ phase' = IF r.status = "returned" THEN "live" ELSE "failed"
  /\ Finish("construct", NoKey, Undefined, TRUE, input, r)

MakeEntity == \E input \in Targets : Construct("makeEntity", input, makeEntity(input, handler))

CreateEvent == \E input \in Targets : Construct("createEvent", input, createEvent(input, handler))

CreateMessage == \E input \in Targets : Construct("createMessage", input, createMessage(input, handler))

MakeEvent == \E input \in Targets : Construct("makeEvent", input, makeEvent(input, handler))

MakeMessage == \E input \in Targets : Construct("makeMessage", input, makeMessage(input, handler))

DefineValue ==
  \E x \in Values :
    /\ phase = "defined"
    /\ factory = "defineValue"
    /\ LET r == defineValue(klass, handler, x)
       IN  /\ phase' = IF r.status = "returned" THEN "live" ELSE "failed"
           /\ Finish("construct", "value", x, TRUE, r.target, r)

Set(name, key, v, strict, r) ==
  /\ phase = "live"
  /\ factory = name
  /\ Rejected => rejects < MaxRejects
  /\ tally.on => tally.writes < MaxWrites
  /\ phase' = phase
  /\ Finish("set", key, v, strict, target, r)

EntitySet ==
  \E key \in Keys, v \in Values : Set("makeEntity", key, v, TRUE, makeEntityHandler(handler, target, key, v))

EventSet ==
  \E key \in Keys, v \in Values : Set("createEvent", key, v, TRUE, createEventHandler(handler, target, key, v))

MessageSet ==
  \E key \in Keys, v \in Values : Set("createMessage", key, v, TRUE, createMessageHandler(handler, target, key, v))

ImmutableEventSet ==
  \E key \in Keys, v \in Values : Set("makeEvent", key, v, TRUE, makeEventHandler(handler, target, key, v))

ImmutableMessageSet ==
  \E key \in Keys, v \in Values : Set("makeMessage", key, v, TRUE, makeMessageHandler(handler, target, key, v))

ValueSet ==
  \E key \in ValueKeys, v \in Values, strict \in BOOLEAN :
    Set("defineValue", key, v, strict, createValueHandler(handler, target, key, v, strict))

Delete ==
  \E key \in Keys :
    /\ phase = "live"
    /\ factory \in RecordFactories
    /\ phase' = phase
    /\ Finish("delete", key, Undefined, TRUE, target, deleteProperty(handler, target, key))

Next ==
  \/ MakeEntity
  \/ CreateEvent
  \/ CreateMessage
  \/ MakeEvent
  \/ MakeMessage
  \/ DefineValue
  \/ EntitySet
  \/ EventSet
  \/ MessageSet
  \/ ImmutableEventSet
  \/ ImmutableMessageSet
  \/ ValueSet
  \/ Delete

Spec == Init /\ [][Next]_vars

\* object[key] = v: an assignment on the object that was passed to defineEntity's
\* factory, not through the record it returned; the record reads the same object.
Assign ==
  \E key \in Keys, v \in Values :
    /\ phase = "live"
    /\ factory = "makeEntity"
    /\ phase' = phase
    /\ Finish("assign", key, v, TRUE, target, Returned(ReflectSet(object, key, v), <<>>))

\* an Entity whose handler defines created, trace and error
InitView == Init /\ factory = "makeEntity" /\ handler.created

NextView ==
  \/ MakeEntity
  \/ EntitySet
  \/ Assign

\* an Entity together with the object it was made from
SpecView == InitView /\ [][NextView]_vars

\* an Entity whose handler defines created, trace and error, with its calls tallied
InitTally ==
  /\ InitRecord
  /\ factory = "makeEntity"
  /\ handler.created /\ handler.trace /\ handler.error
  /\ tally = Tallies(TRUE)

NextTally ==
  \/ MakeEntity
  \/ EntitySet

SpecTally == InitTally /\ [][NextTally]_vars

\* an Entity whose descriptor of "id" has an updated hook that throws
InitThrowing ==
  /\ factory = "makeEntity"
  /\ handler \in ThrowingHandlers
  /\ klass = "none"
  /\ target = NullTarget
  /\ prev = NullTarget
  /\ phase = "defined"
  /\ op = Op("define", NoKey, Undefined, TRUE)
  /\ log = <<>>
  /\ out = [status |-> "none", err |-> NoErr]
  /\ rejects = 0
  /\ base = NullTarget
  /\ object = NullTarget
  /\ tally = Tallies(FALSE)

NextThrowing ==
  \/ MakeEntity
  \/ EntitySet

SpecThrowing == InitThrowing /\ [][NextThrowing]_vars

(***************************************************************************)
(* models/Value.ts.  A class is known by its name; Email and Name extend   *)
(* Value, WorkEmail extends Email.  An instance keeps its class, its type  *)
(* tag and its value.                                                      *)
(***************************************************************************)
Classes == {"Value", "Email", "WorkEmail", "Name"}

\* the class that a class extends
Extends(C) == IF C = "WorkEmail" THEN "Email" ELSE "Value"

\* _class.name
ClassName(C) == C

\* new _class(type, value): this.type = type; this.value = value
NewValue(C, type, x) == [class |-> C, type |-> type, value |-> x]

\* value instanceof _class: walk the prototype chain of value's class
RECURSIVE instanceof(_, _)
instanceof(C, _class) ==
  IF C = _class THEN TRUE
  ELSE IF C = "Value" THEN FALSE
  ELSE instanceof(Extends(C), _class)

\* createProxyFor(schema, instance) of @cosmicverse/foundation: the proxy of
\* the instance when the caller's schema accepts it, an error otherwise.
createProxyFor(accepts, instance) ==
  IF accepts THEN Returned(instance, <<>>)
  ELSE Thrown(instance, <<>>, Error("ProxyTypeError", "is invalid", "value"))

\* createValueFor(_class, value): value => createProxyFor(schema, new _class(_class.name, value))
createValueFor(_class, accepts, x) == createProxyFor(accepts, NewValue(_class, ClassName(_class), x))

\* a predicate that looks at the class only
validateValueFor_InstanceOnly(v, _class, type) == instanceof(v.class, _class)

\* validateValueFor(value, _class = Value, type = _class.name):
\*   value instanceof _class && type == value.type
validateValueFor(v, _class, type) == instanceof(v.class, _class) /\ type = v.type

InitValueFor ==
  /\ factory \in {"createValueFor", "new"}
  /\ klass \in Classes
  /\ handler = [validator |-> "none"]
  /\ target = NullTarget
  /\ prev = NullTarget
  /\ phase = "defined"
  /\ op = Op("define", NoKey, Undefined, TRUE)
  /\ log = <<>>
  /\ out = [status |-> "none", err |-> NoErr]
  /\ rejects = 0
  /\ base = NullTarget
  /\ object = NullTarget
  /\ tally = Tallies(FALSE)

\* the function that createValueFor(klass, schema) returned, applied to x
CreateValueFor ==
  \E x \in Values, accepts \in BOOLEAN :
    /\ phase = "defined"
    /\ factory = "createValueFor"
    /\ LET r == createValueFor(klass, accepts, x)
       IN  /\ phase' = IF r.status = "returned" THEN "live" ELSE "failed"
           /\ Finish("construct", "value", x, TRUE, r.target, r)

\* new klass(type, x) with a type tag of the caller's choice
New ==
  \E type \in Classes, x \in Values :
    /\ phase = "defined"
    /\ factory = "new"
    /\ phase' = "live"
    /\ Finish("construct", "value", x, TRUE, NewValue(klass, type, x),
              Returned(NewValue(klass, type, x), <<>>))

\* validateValueFor(value) and validateValueFor(value, _class)
ValidateValueFor ==
  \E args \in {<<>>} \cup {<<C>> : C \in Classes} :
    /\ phase = "live"
    /\ phase' = phase
    /\ LET _class == IF Len(args) = 0 THEN "Value" ELSE args[1]
           result == validateValueFor(target, _class, ClassName(_class))
       IN  Finish("validate", _class, Len(args), TRUE, target,
                  [status |-> IF result THEN "true" ELSE "false", err |-> NoErr,
                   target |-> target, log |-> <<>>])

NextValueFor ==
  \/ CreateValueFor
  \/ New
  \/ ValidateValueFor

SpecValueFor == InitValueFor /\ [][NextValueFor]_vars

(***************************************************************************)
(* Properties.  op is the last operation, prev the target before it, log   *)
(* the callbacks it invoked in order, out how it ended.                    *)
(***************************************************************************)
Count(cb) == Cardinality({i \in DOMAIN log : log[i].cb = cb})

Calls(cbs) == SelectSeq(log, LAMBDA c : c.cb \in cbs)

IsSet(f) == factory = f /\ op.name = "set"

IsConstruct(f) == factory = f /\ op.name = "construct"

Written(t, key, v) == [t.fields EXCEPT ![key] = Own(v)]

SameCall(c, cb, key, v, old, rec) ==
  c.cb = cb /\ c.key = key /\ c.value = v /\ c.old = old /\ c.rec = rec

\* the last write was to a field of an Entity whose validator returns false for the value
RejectedEntityWrite ==
  /\ IsSet("makeEntity")
  /\ HasProperty(handler, op.key)
  /\ Property(handler, op.key).validator # "none"
  /\ ApplyValidator(Property(handler, op.key).validator, op.value) = "false"

\* C1: a write to an Entity field whose validator returns false for the value
\* throws an EntityError, calls error (when supplied) exactly once, last, with
\* the error that is thrown, calls neither updated nor trace, and leaves the
\* record as it was.
C1_RejectedWrite ==
  RejectedEntityWrite =>
    /\ out.status = "thrown"
    /\ out.err.type = "EntityError"
    /\ handler.error =>
         /\ Count("error") = 1
         /\ log[Len(log)].cb = "error"
         /\ log[Len(log)].err = out.err
    /\ Count("updated") = 0
    /\ Count("trace") = 0
    /\ target = prev

C1_Witness ==
  /\ RejectedEntityWrite
  /\ handler.error
  /\ Property(handler, op.key).updated
  /\ has(prev, op.key)
  /\ get(prev, op.key) # op.value
  /\ out.status = "thrown"

\* the last write was to a governed Entity field with a value the validator accepts
AcceptedEntityWrite ==
  /\ IsSet("makeEntity")
  /\ HasProperty(handler, op.key)
  /\ ApplyValidator(Property(handler, op.key).validator, op.value) = "true"

ErrorClass(f) ==
  CASE f = "makeEntity" -> "EntityError"
    [] f \in {"createEvent", "makeEvent"} -> "EventError"
    [] f \in {"createMessage", "makeMessage"} -> "MessageError"
    [] OTHER -> "ValueError"

EventOrMessage == factory \in {"createEvent", "createMessage", "makeEvent", "makeMessage"}

\* C3: every write to an Event or a Message throws the variant's error and
\* leaves the record's fields unchanged.
C3_EveryWriteThrows ==
  (EventOrMessage /\ op.name = "set") =>
    /\ out.status = "thrown"
    /\ out.err.type = ErrorClass(factory)
    /\ target = prev

\* the validator of the descriptor at index j, applied to the input's value
Verdict(j) == ApplyValidator(handler.props[j].validator, get(prev, handler.props[j].key))

\* descriptor j is checked at construction: required, or present and not undefined
Checked(j) ==
  \/ handler.props[j].required
  \/ has(prev, handler.props[j].key) /\ get(prev, handler.props[j].key) # Undefined

ConstructedRecord == factory \in RecordFactories /\ op.name = "construct" /\ handler.hasProps

\* descriptor i is required and the input lacks its field
LacksRequired(i) == handler.props[i].required /\ ~has(prev, handler.props[i].key)

\* C4 as stated: a required field missing from the input always makes
\* construction fail with the variant's Domain Error, and created is not called.
C4_Original ==
  ConstructedRecord =>
    \A i \in DOMAIN handler.props :
      LacksRequired(i) =>
        /\ out.status = "thrown"
        /\ out.err.type = ErrorClass(factory)
        /\ Count("created") = 0

\* C4 (amended): a required field missing from the input always makes
\* construction fail, and created is not called; the error is the variant's
\* Domain Error unless the validator of an earlier descriptor threw, whose
\* exception then propagates.
C4_RequiredMissingFails ==
  ConstructedRecord =>
    \A i \in DOMAIN handler.props :
      LacksRequired(i) =>
        /\ out.status = "thrown"
        /\ Count("created") = 0
        /\ \/ out.err.type = ErrorClass(factory)
           \/ \E j \in 1 .. (i - 1) :
                /\ Checked(j)
                /\ Verdict(j) = "throw"
                /\ out.err = ValidatorException(handler.props[j].key)

C4_Witness ==
  /\ ConstructedRecord
  /\ guard(prev)
  /\ Len(handler.props) = 2
  /\ LacksRequired(2)
  /\ has(prev, handler.props[1].key)
  /\ handler.created
  /\ out.err = Error(ErrorClass(factory), "is required", handler.props[2].key)

\* descriptor i is optional and its field is absent from the input or undefined
OptionalUnset(i) ==
  /\ ~handler.props[i].required
  /\ ~has(prev, handler.props[i].key) \/ get(prev, handler.props[i].key) = Undefined

\* descriptor j passes its check
Passes(j) ==
  /\ handler.props[j].required => has(prev, handler.props[j].key)
  /\ Checked(j) => Verdict(j) = "true"

ValidatorCalls(key) == Cardinality({i \in DOMAIN log : log[i].cb = "validator" /\ log[i].key = key})

\* C5 as stated: with an optional field absent or undefined, its validator is
\* not called and construction succeeds when no required field fails.
C5_Original ==
  (ConstructedRecord /\ guard(prev)) =>
    \A i \in DOMAIN handler.props :
      OptionalUnset(i) =>
        /\ ValidatorCalls(handler.props[i].key) = 0
        /\ (\A j \in DOMAIN handler.props : handler.props[j].required => Passes(j))
             => out.status = "returned"

\* C5 (amended): with an optional field absent or undefined, its validator is
\* not called and construction succeeds when no other descriptor, required or
\* optional, fails its check.
C5_OptionalUnsetSkipped ==
  (ConstructedRecord /\ guard(prev)) =>
    \A i \in DOMAIN handler.props :
      OptionalUnset(i) =>
        /\ ValidatorCalls(handler.props[i].key) = 0
        /\ (\A j \in DOMAIN handler.props : Passes(j)) => out.status = "returned"

C5_Witness ==
  /\ ConstructedRecord
  /\ Len(handler.props) = 2
  /\ OptionalUnset(1)
  /\ handler.props[1].validator = "guard"
  /\ prev.fields[handler.props[1].key] = Own(Undefined)
  /\ handler.props[2].required
  /\ handler.props[2].validator = "long"
  /\ out.status = "returned"
  /\ phase = "live"

DomainErrors == {"EntityError", "EventError", "MessageError", "ValueError"}

\* C6: in every variant a construction that fails with the variant's error
\* has called error (when supplied) exactly once, last, with the error thrown.
C6_ErrorBeforeThrow ==
  (op.name = "construct" /\ out.status = "thrown" /\ out.err.type \in DomainErrors /\ handler.error) =>
    /\ Count("error") = 1
    /\ log[Len(log)].cb = "error"
    /\ log[Len(log)].err = out.err

\* C7: a successful construction of an Entity or a Value calls created once
\* with the proxy it returns and then trace once with the same proxy, after
\* all validation; a failed construction calls neither.
C7_CreatedThenTrace ==
  (IsConstruct("makeEntity") \/ IsConstruct("defineValue")) =>
    IF out.status = "returned"
    THEN LET expected ==
               (IF handler.created THEN <<HookCall("created", "proxy", target)>> ELSE <<>>)
               \o (IF handler.trace THEN <<HookCall("trace", "proxy", target)>> ELSE <<>>)
         IN  /\ Calls({"created", "trace"}) = expected
             /\ Len(log) >= Len(expected)
             /\ SubSeq(log, Len(log) - Len(expected) + 1, Len(log)) = expected
    ELSE Count("created") = 0 /\ Count("trace") = 0

C7_Witness ==
  /\ IsConstruct("makeEntity")
  /\ out.status = "returned"
  /\ handler.created
  /\ handler.trace
  /\ Count("validator") = 2
  /\ Len(log) = 4

\* C8: the value read from a constructed Value equals prepare(x) when the
\* class defines prepare, which is then called exactly once with x, and equals
\* x when it does not.
C8_StoredValue ==
  IsConstruct("defineValue") =>
    /\ out.status = "returned" =>
         value(target) = (IF klass # "none" THEN prepare(klass, op.value) ELSE op.value)
    /\ Count("prepare") = (IF klass # "none" THEN 1 ELSE 0)
    /\ klass # "none" => log[1].cb = "prepare" /\ log[1].value = op.value

C8_Witness ==
  /\ IsConstruct("defineValue")
  /\ out.status = "returned"
  /\ klass = "dec"
  /\ value(target) # op.value
  /\ handler.validator = "long"

\* C9: with prepare defined, the validator at construction receives the
\* prepared value, and construction succeeds exactly when the validator
\* accepts the prepared value.
C9_ValidatesPrepared ==
  (IsConstruct("defineValue") /\ klass # "none" /\ handler.validator # "none") =>
    /\ \A i \in DOMAIN log : log[i].cb = "validator" => log[i].value = prepare(klass, op.value)
    /\ out.status = "returned" <=> ApplyValidator(handler.validator, prepare(klass, op.value)) = "true"

\* C10: a write of V to value that the validator accepts completes without an
\* error, and value then reads V.
C10_AcceptedValueWrite ==
  (IsSet("defineValue") /\ op.key = "value" /\ ApplyValidator(handler.validator, op.value) = "true") =>
    /\ out.status = "returned"
    /\ value(target) = op.value

\* C11: every write to value of a Wrapped Value calls the validator with the
\* written value; when the validator returns false a ValueError is thrown,
\* error (when supplied) has been called exactly once, last, with that same
\* error, and the stored value is unchanged.
C11_RejectedValueWrite ==
  (IsSet("defineValue") /\ op.key = "value" /\ handler.validator # "none") =>
    /\ Len(log) >= 1 /\ log[1].cb = "validator" /\ log[1].value = op.value
    /\ ApplyValidator(handler.validator, op.value) = "false" =>
         /\ out.status = "thrown"
         /\ out.err.type = "ValueError"
         /\ handler.error =>
              /\ Count("error") = 1
              /\ log[Len(log)].cb = "error"
              /\ log[Len(log)].err = out.err
         /\ value(target) = value(prev)

\* C12: in every variant without a prepare step, right after a successful
\* construction every field read through the record is the input's value for
\* that field, and the record has exactly the input's fields.
C12_RoundTrip ==
  (op.name = "construct" /\ out.status = "returned" /\ klass = "none") =>
    IF factory = "defineValue"
    THEN value(target) = op.value /\ DOMAIN target.fields = {"_value"}
    ELSE \A k \in Keys : has(target, k) = has(prev, k) /\ get(target, k) = get(prev, k)

C12_Witness ==
  /\ IsConstruct("makeEntity")
  /\ out.status = "returned"
  /\ Len(handler.props) = 2
  /\ handler.props[1].validator = "long"
  /\ get(target, "id") = MaxVal
  /\ ~has(prev, "name")
  /\ ~has(target, "name")

\* the last write was to an Entity field that has no descriptor in the handler
UngovernedEntityWrite == IsSet("makeEntity") /\ ~HasProperty(handler, op.key)

\* C13: a write to an Entity field with no descriptor is never validated and
\* never rejected: the value lands, neither error nor updated is called, and
\* trace (when supplied) is called once, afterwards, with the record reading
\* the new value.
C13_UngovernedWrite ==
  UngovernedEntityWrite =>
    /\ out.status = "returned"
    /\ target.fields = Written(prev, op.key, op.value)
    /\ Count("validator") = 0
    /\ Count("error") = 0
    /\ Count("updated") = 0
    /\ log = (IF handler.trace THEN <<HookCall("trace", "target", target)>> ELSE <<>>)

C13_Witness ==
  /\ UngovernedEntityWrite
  /\ op.key = "name"
  /\ Len(handler.props) = 1
  /\ handler.props[1].validator = "guard"
  /\ op.value = Undefined
  /\ get(prev, "name") # Undefined
  /\ handler.trace
  /\ Len(log) = 1

\* C14: deleting a field of a guarded record raises an error and leaves the
\* field in place, so every field the handler declares required is present in
\* every state of a successfully constructed record.
C14_DeleteRejected ==
  /\ op.name = "delete" => out.status = "thrown" /\ target = prev
  /\ (factory \in RecordFactories /\ phase = "live") =>
       \A i \in DOMAIN handler.props : handler.props[i].required => has(target, handler.props[i].key)

\* C15: a factory whose handler declares no descriptors, the default handler
\* with no properties map included, constructs a record from every non-null
\* structured input and calls created (when supplied).
C15_NoDescriptorsConstructs ==
  (factory \in RecordFactories /\ op.name = "construct" /\ Len(handler.props) = 0 /\ guard(prev)) =>
    /\ out.status = "returned"
    /\ target = prev
    /\ Count("created") = (IF handler.created THEN 1 ELSE 0)

\* every descriptor before j passes and the loop runs j's validator on the input's field
FirstValidated(j) ==
  /\ \A i \in 1 .. (j - 1) : Passes(i)
  /\ Checked(j)
  /\ ~LacksRequired(j)

\* C16 as stated: at construction only a validator returning false rejects a
\* field; one that throws, returns true or is absent passes, so construction
\* succeeds and created fires whenever no required field is missing and no
\* validator returns false.
C16_Original ==
  (ConstructedRecord /\ guard(prev)) =>
    ((\A j \in DOMAIN handler.props :
         /\ ~LacksRequired(j)
         /\ Checked(j) => Verdict(j) # "false")
       => /\ out.status = "returned"
          /\ Count("created") = (IF handler.created THEN 1 ELSE 0))

\* C16 (amended): at construction a validator that returns true or is absent
\* passes and one that returns false rejects the field with the variant's
\* Domain Error; a validator that throws ends construction with its own
\* exception, without a call to error or created and without checking the
\* remaining descriptors.
C16_ThrowingValidatorPropagates ==
  (ConstructedRecord /\ guard(prev)) =>
    /\ out.status = "returned" <=> \A j \in DOMAIN handler.props : Passes(j)
    /\ \A j \in DOMAIN handler.props :
         FirstValidated(j) =>
           /\ Verdict(j) = "false" =>
                out = [status |-> "thrown", err |-> Error(ErrorClass(factory), "is invalid", handler.props[j].key)]
           /\ Verdict(j) = "throw" =>
                /\ out = [status |-> "thrown", err |-> ValidatorException(handler.props[j].key)]
                /\ Count("error") = 0
                /\ Count("created") = 0
                /\ \A i \in (j + 1) .. Len(handler.props) : ValidatorCalls(handler.props[i].key) = 0

C16_Witness ==
  /\ ConstructedRecord
  /\ Len(handler.props) = 2
  /\ FirstValidated(1)
  /\ Verdict(1) = "throw"
  /\ handler.props[2].validator = "guard"
  /\ Checked(2)
  /\ Verdict(2) = "true"
  /\ handler.error
  /\ out.err = ValidatorException("id")

\* C17: a rejected write to an Entity ends that write only: after a run of
\* rejected writes the record is exactly as it was before the first of them,
\* and the next write of a value the field's validator accepts, to the same
\* field or another, returns normally and lands.
C17_RejectionEndsOneWrite ==
  (IsSet("makeEntity") /\ rejects > 0) =>
    /\ prev = base
    /\ out.status = "thrown" => target = base
    /\ ApplyValidator(PropertyOf(handler, op.key).validator, op.value) = "true" =>
         /\ out.status = "returned"
         /\ target.fields = Written(base, op.key, op.value)

C17_Witness ==
  /\ IsSet("makeEntity")
  /\ rejects = MaxRejects
  /\ Len(handler.props) = 2
  /\ handler.props[1].validator = "guard"
  /\ handler.props[2].validator = "long"
  /\ op.key = "id"
  /\ get(base, "id") = Undefined
  /\ out.status = "returned"
  /\ get(target, "id") = op.value
  /\ get(target, "name") = get(base, "name")

Immutable == factory \in {"makeEvent", "makeMessage"}

\* the operation ended with the Domain Error of the record's variant
ThrewDomainError == out.status = "thrown" /\ out.err.type = ErrorClass(factory)

\* the validator that the set trap applies to the last written value
WriteVerdict ==
  IF factory = "defineValue" THEN ApplyValidator(handler.validator, op.value)
  ELSE ApplyValidator(PropertyOf(handler, op.key).validator, op.value)

\* C18: an error raised by a construction or a write because the input is not
\* structured, a required field is missing, a validator returned false or the
\* record is immutable is of the variant's kind (EntityError, EventError,
\* MessageError, ValueError); the only errors of another kind are the
\* TypeErrors of a validator that throws and of a failed Reflect.set.
C18_DomainErrorKind ==
  /\ (factory \in RecordFactories /\ op.name = "construct" /\ ~guard(prev)) => ThrewDomainError
  /\ (ConstructedRecord /\ guard(prev)) =>
       \A j \in DOMAIN handler.props :
         ((\A i \in 1 .. (j - 1) : Passes(i)) /\ (LacksRequired(j) \/ (Checked(j) /\ Verdict(j) = "false")))
           => ThrewDomainError
  /\ (IsConstruct("defineValue") /\ ApplyValidator(handler.validator, op.value) = "false") => ThrewDomainError
  /\ (op.name = "set" /\ Immutable) => ThrewDomainError
  /\ (op.name = "set" /\ ~Immutable /\ WriteVerdict = "false") => ThrewDomainError
  /\ (out.status = "thrown" /\ out.err.type # "TypeError") => out.err.type = ErrorClass(factory)

C18_Witness ==
  /\ IsSet("makeMessage")
  /\ handler.error
  /\ out.err = Error("MessageError", "cannot modify message properties", NoKey)
  /\ log[Len(log)].err.type = "MessageError"

\* D extends C directly or through other classes
ProperSubclass(D, C) == D # C /\ instanceof(D, C)

\* the last operation was validateValueFor(target, op.key), op.key being Value by default
Validated == op.name = "validate"

\* C19: validateValueFor(v, C), C being Value when omitted, is true exactly
\* when v is an instance of C and v's type tag is C's name; it is true of every
\* value that createValueFor(C, ...) produced, and false of an instance of a
\* proper subclass of C whose type tag is the subclass's name.
C19_IdentityPredicate ==
  Validated =>
    /\ out.status \in {"true", "false"}
    /\ out.status = "true" <=> (instanceof(target.class, op.key) /\ target.type = ClassName(op.key))
    /\ op.value = 0 => op.key = "Value"
    /\ (factory = "createValueFor" /\ op.key = klass) => out.status = "true"
    /\ (ProperSubclass(target.class, op.key) /\ target.type = ClassName(target.class))
         => out.status = "false"

C19_Witness ==
  /\ Validated
  /\ factory = "new"
  /\ target.class = "WorkEmail"
  /\ target.type = "WorkEmail"
  /\ op.key = "Email"
  /\ out.status = "false"

\* an error of a Message read as the error its Event twin raises
AsEventError(e) ==
  IF e.type = "MessageError"
  THEN [type |-> "EventError",
        msg |-> IF e.msg = "cannot modify message properties"
                THEN "cannot modify event properties" ELSE e.msg,
        key |-> e.key]
  ELSE e

\* the outcome of a Message operation read as an Event outcome
AsEvent(r) ==
  [status |-> r.status,
   err |-> AsEventError(r.err),
   target |-> r.target,
   log |-> [i \in DOMAIN r.log |-> [r.log[i] EXCEPT !.err = AsEventError(r.log[i].err)]]]

\* what the last operation did: how it ended, the record after it, the callbacks it made
Observed == [status |-> out.status, err |-> out.err, target |-> target, log |-> log]

Fails(j) == LacksRequired(j) \/ (Checked(j) /\ Verdict(j) = "false")

\* what construction does when it stops at descriptor j with the variant's error
StopsAt(j) ==
  /\ out.status = "thrown"
  /\ out.err = Error(ErrorClass(factory), IF LacksRequired(j) THEN "is required" ELSE "is invalid",
                     handler.props[j].key)
  /\ Count("error") = (IF handler.error THEN 1 ELSE 0)
  /\ \A i \in (j + 1) .. Len(handler.props) : ValidatorCalls(handler.props[i].key) = 0

\* C21 as stated: construction checks the descriptors in insertion order and
\* stops at the first that fails: the error names that field, error is called
\* once, and no later validator is called.
C21_Original ==
  (ConstructedRecord /\ guard(prev)) =>
    \A j \in DOMAIN handler.props :
      (Fails(j) /\ \A i \in 1 .. (j - 1) : ~Fails(i)) => StopsAt(j)

\* C21 (amended): construction checks the descriptors in insertion order and
\* stops at the first that does not pass.  When that one fails, the error
\* names its field, error is called once and no later validator is called;
\* when its validator throws, that exception ends construction, error is not
\* called and no later validator is called either.
C21_StopsAtFirstFailure ==
  (ConstructedRecord /\ guard(prev)) =>
    \A j \in DOMAIN handler.props :
      (~Passes(j) /\ \A i \in 1 .. (j - 1) : Passes(i)) =>
        IF Fails(j) THEN StopsAt(j)
        ELSE /\ out = [status |-> "thrown", err |-> ValidatorException(handler.props[j].key)]
             /\ Count("error") = 0
             /\ \A i \in (j + 1) .. Len(handler.props) : ValidatorCalls(handler.props[i].key) = 0

C21_Witness ==
  /\ ConstructedRecord
  /\ Len(handler.props) = 2
  /\ handler.props[1].validator = "long"
  /\ Fails(1)
  /\ Checked(1) /\ Verdict(1) = "false"
  /\ handler.props[2].validator = "guard"
  /\ Fails(2)
  /\ handler.error
  /\ out.err = Error(ErrorClass(factory), "is invalid", "id")
  /\ Len(log) = 2

\* the input does not own the field of descriptor j but inherits it
InheritsOnly(j) == prev.fields[handler.props[j].key].at = "proto"

\* C22: a required field counts as present only when the input owns it:
\* construction from an input that inherits the field from its prototype
\* fails with the field's 'is required' error.
C22_OwnKeyRequired ==
  (ConstructedRecord /\ guard(prev)) =>
    \A j \in DOMAIN handler.props :
      (handler.props[j].required /\ InheritsOnly(j) /\ \A i \in 1 .. (j - 1) : Passes(i)) =>
        out = [status |-> "thrown",
               err |-> Error(ErrorClass(factory), "is required", handler.props[j].key)]

\* C23: a write of V to field K of an Entity that returns normally changes K
\* only: K then reads V and every other field reads what it read before.
C23_WriteChangesOnlyK ==
  (IsSet("makeEntity") /\ out.status = "returned") =>
    /\ has(target, op.key)
    /\ get(target, op.key) = op.value
    /\ \A k \in Keys \ {op.key} : target.fields[k] = prev.fields[k]

C23_Witness ==
  /\ IsSet("makeEntity")
  /\ out.status = "returned"
  /\ op.key = "id"
  /\ HasProperty(handler, "id")
  /\ Property(handler, "id").validator = "long"
  /\ get(prev, "id") # op.value
  /\ get(target, "id") = op.value
  /\ prev.fields["name"] = Own(1)
  /\ target.fields["name"] = Own(1)

\* C24: at construction every validator is called with the input's value for
\* its field and a record through which every input field, those of later
\* descriptors included, reads its input value; on a write to an Entity the
\* validator is called with the new value while the record still reads the
\* field's previous value.
C24_ValidatorArguments ==
  /\ (ConstructedRecord /\ guard(prev)) =>
       \A i \in DOMAIN log :
         log[i].cb = "validator" =>
           /\ log[i].value = get(prev, log[i].key)
           /\ log[i].rec = prev.fields
  /\ (IsSet("makeEntity") /\ PropertyOf(handler, op.key).validator # "none") =>
       /\ Len(log) >= 1
       /\ log[1].cb = "validator"
       /\ log[1].key = op.key
       /\ log[1].value = op.value
       /\ log[1].rec = prev.fields

C24_Witness ==
  /\ IsConstruct("makeEntity")
  /\ Len(handler.props) = 2
  /\ Count("validator") = 2
  /\ log[1].key = "id"
  /\ log[1].value = get(prev, "id")
  /\ log[1].rec["name"] = Own(MaxVal)
  /\ log[2].key = "name"
  /\ out.status = "returned"

\* C25: the guarded record is a view on the input object: after an accepted
\* write of V to K through the record the input object reads V for K, and a
\* value assigned on the input object is read unchanged through the record.
C25_ViewNotCopy ==
  /\ (IsSet("makeEntity") /\ out.status = "returned") =>
       /\ object.fields[op.key] = Own(op.value)
       /\ object = target
  /\ op.name = "assign" =>
       /\ target.fields[op.key] = Own(op.value)
       /\ object = target
       /\ Len(log) = 0

C25_Witness ==
  /\ op.name = "assign"
  /\ PropertyOf(handler, op.key).validator = "long"
  /\ op.value = 1
  /\ get(prev, op.key) = MaxVal
  /\ get(target, op.key) = 1
  /\ get(object, op.key) = 1

\* field k of the record holds a defined value
Defined(t, k) == has(t, k) /\ get(t, k) # Undefined

\* C26: in every state of a constructed Entity reached by writes through the
\* record, every field whose descriptor has a validator and which holds a
\* defined value holds a value that the validator accepts.
C26_FieldsStayValid ==
  (factory = "makeEntity" /\ phase = "live") =>
    \A k \in Keys :
      (PropertyOf(handler, k).validator # "none" /\ Defined(target, k)) =>
        ApplyValidator(PropertyOf(handler, k).validator, get(target, k)) = "true"

C26_Witness ==
  /\ IsSet("makeEntity")
  /\ rejects > 0
  /\ out.status = "returned"
  /\ Len(handler.props) = 2
  /\ handler.props[1].validator = "long"
  /\ handler.props[2].validator = "long"
  /\ ~handler.props[2].required
  /\ ~Defined(prev, "name")
  /\ op.key = "name"
  /\ Defined(target, "id")
  /\ Defined(target, "name")

AcceptedAtConstruction(j) == has(prev, handler.props[j].key) /\ Passes(j)

\* the write of the input's own value for the field of descriptor j, on the input
WrittenBack(j) == makeEntityHandler(handler, prev, handler.props[j].key, get(prev, handler.props[j].key))

\* C28 as stated: construction and write agree on what a governed Entity
\* field may hold: a value (undefined included) with which the field is
\* accepted at construction is accepted when written to it afterwards, and a
\* value that construction rejects is rejected when written.
C28_Original ==
  (IsConstruct("makeEntity") /\ handler.hasProps /\ guard(prev)) =>
    \A j \in DOMAIN handler.props :
      /\ (out.status = "returned" /\ AcceptedAtConstruction(j)) => WrittenBack(j).status = "returned"
      /\ (out.status = "thrown" /\ out.err = Error("EntityError", "is invalid", handler.props[j].key))
           => WrittenBack(j).status = "thrown"

\* C28 (amended): a value that construction validated and accepted for a
\* governed field is accepted when written to it, and a value construction
\* rejects is rejected when written; undefined in an optional field is
\* accepted at construction without validation, while a write of undefined is
\* validated and lands only when the validator returns true for it.
C28_AgreeOnValidatedValues ==
  (IsConstruct("makeEntity") /\ handler.hasProps /\ guard(prev)) =>
    \A j \in DOMAIN handler.props :
      /\ (out.status = "returned" /\ AcceptedAtConstruction(j) /\ Checked(j))
           => WrittenBack(j).status = "returned"
      /\ (out.status = "thrown" /\ out.err = Error("EntityError", "is invalid", handler.props[j].key))
           => WrittenBack(j).status = "thrown"
      /\ (has(prev, handler.props[j].key) /\ ~Checked(j)) =>
           /\ ValidatorCalls(handler.props[j].key) = 0
           /\ (\A i \in DOMAIN handler.props : Passes(i)) => out.status = "returned"
           /\ WrittenBack(j).status = "returned"
                <=> ApplyValidator(handler.props[j].validator, Undefined) = "true"

C28_Witness ==
  /\ IsConstruct("makeEntity")
  /\ out.status = "returned"
  /\ Len(handler.props) = 2
  /\ handler.props[2].validator = "guard"
  /\ prev.fields["name"] = Own(Undefined)
  /\ ~Checked(2)
  /\ WrittenBack(2).err = Error("EntityError", "is invalid", "name")
  /\ Checked(1)
  /\ handler.props[1].validator = "long"
  /\ WrittenBack(1).status = "returned"

\* C29: for an Entity whose handler defines created, trace and error, after a
\* successful construction and any n accepted and m rejected writes, created
\* has been called once, trace n + 1 times and error m times.
C29_CallCounts ==
  (tally.on /\ phase = "live") =>
    /\ tally.created = 1
    /\ tally.trace = tally.accepted + 1
    /\ tally.error = tally.rejected

C29_Witness ==
  /\ tally.on
  /\ phase = "live"
  /\ tally.writes = MaxWrites
  /\ tally.accepted >= 1
  /\ tally.rejected >= 1
  /\ tally.error = tally.rejected
  /\ tally.trace = tally.accepted + 1

\* the last write was to an Entity field whose validator accepts the value
\* and whose updated hook throws
UpdatedThrew ==
  /\ IsSet("makeEntity")
  /\ PropertyOf(handler, op.key).updated
  /\ PropertyOf(handler, op.key).throws
  /\ ApplyValidator(PropertyOf(handler, op.key).validator, op.value) = "true"

\* C30: when the updated hook of an Entity field throws during a write, the
\* exception reaches the writer, the field keeps its value, and neither trace
\* nor error is called for that write.
C30_UpdatedThrows ==
  UpdatedThrew =>
    /\ out = [status |-> "thrown", err |-> UpdatedException(op.key)]
    /\ target = prev
    /\ log[Len(log)].cb = "updated"
    /\ Count("updated") = 1
    /\ Count("trace") = 0
    /\ Count("error") = 0

C30_Witness ==
  /\ UpdatedThrew
  /\ handler.trace
  /\ handler.error
  /\ Property(handler, op.key).validator = "long"
  /\ get(prev, op.key) # op.value
  /\ get(target, op.key) = get(prev, op.key)
  /\ out.status = "thrown"

====
